---- MODULE Spec2Model ----
(***************************************************************************)
(* unsafe_ls: the region tracker and operation classifier of visitor.rs,   *)
(* and the report loop of the two drivers (src/src/unsafe_ls.rs with       *)
(* src/src/visitor.rs, and src/bin.rs with src/visitor.rs).                *)
(*                                                                         *)
(* The tree walk is modelled by its visitor callbacks.  The Rust call      *)
(* stack of visit_fn / visit_block activations is the variable `stack`;    *)
(* an activation is pushed by the first half of the callback (up to the    *)
(* call of visit::walk_fn / visit::walk_block) and popped by its second    *)
(* half.  Any nesting of nodes is allowed.                                 *)
(***************************************************************************)
EXTENDS Integers, Sequences, FiniteSets, TLC

\* ------------------------------------------------------------------ bounds
\* The size of an analysed tree is the number of its functions, closures
\* and blocks plus the number of its expressions.
\* Spec (the region tracker): size of the analysed tree
MaxSize == 4
\* SpecReport (walk and report of one input): size of the analysed tree
ReportMaxSize == 3
\* SpecMain (the loop over the inputs): inputs, and size of each tree
MaxInputs == 2
MainMaxSize == 2
\* SpecClassify (the operation classifier): size of the analysed tree
ClassifyMaxSize == 3

\* ------------------------------------------------------------ source map
\* The CodeMap of the analysed program, by source offset (from 0): file "a"
\* has a line of two characters and a line of one, file "b" follows.
CodeMap ==
    << [filename |-> "a", line |-> 1, col |-> 0],
       [filename |-> "a", line |-> 1, col |-> 1],
       [filename |-> "a", line |-> 2, col |-> 0],
       [filename |-> "b", line |-> 1, col |-> 0] >>

Offsets == {i - 1 : i \in 1..Len(CodeMap)}

\* cm.lookup_char_pos_adj(lo): file name, line, and column from 0
lookup_char_pos_adj(lo) == CodeMap[lo + 1]

\* cm.span_to_lines(span): the file and the first line of the span
span_to_lines(lo) ==
    [file |-> CodeMap[lo + 1].filename, line |-> CodeMap[lo + 1].line]

\* ------------------------------------------------------------- NodeInfo
Buckets == <<"ffi", "raw_deref", "static_mut", "unsafe_call", "transmute",
             "transmute_imm_to_mut", "cast_raw_ptr_const_to_mut", "asm">>

BucketSet == {Buckets[i] : i \in 1..Len(Buckets)}

NodeInfo_new(span, is_fn, compiler) ==
    [span |-> span, is_fn |-> is_fn, compiler |-> compiler,
     ffi |-> <<>>, raw_deref |-> <<>>, static_mut |-> <<>>,
     unsafe_call |-> <<>>, transmute |-> <<>>,
     transmute_imm_to_mut |-> <<>>,
     cast_raw_ptr_const_to_mut |-> <<>>, asm |-> <<>>]

\* Option<(ast::NodeId, NodeInfo)>
None == [tag |-> "None"]
Some(id, info) == [tag |-> "Some", id |-> id, info |-> info]

\* ------------------------------------------------------------ the inputs
\* Static types, as far as the classifier looks at them.
PtrTys == {"rptr_imm", "rptr_mut", "ptr_imm", "ptr_mut", "other"}
FnTys == {"bare_fn_unsafe", "bare_fn_normal", "closure_unsafe", "not_fn"}

\* What the callee of a direct call resolves to in def_map: a DefFn whose
\* definition is a local foreign item, another local item, or an item of
\* another crate; or anything that is not a DefFn.
Defs == {"foreign_local", "fn_local", "fn_extern", "no_def"}

\* The fn_style a DefFn carries in src/visitor.rs.
FnStyles == {"UnsafeFn", "NormalFn"}

\* What the type checker guarantees of a callee: a foreign function is
\* unsafe, the style of a DefFn is the one of its bare-fn type, and a
\* callee that is no DefFn carries no style.
resolved(def, style, ty) ==
    CASE def = "foreign_local" -> style = "UnsafeFn" /\ ty = "bare_fn_unsafe"
      [] def \in {"fn_local", "fn_extern"} ->
            \/ style = "UnsafeFn" /\ ty = "bare_fn_unsafe"
            \/ style = "NormalFn" /\ ty = "bare_fn_normal"
      [] OTHER -> style = "NormalFn"

FnKinds == {"FkItemFn", "FkMethod", "FkFnBlock"}
BlockRules == {"DefaultBlock", "UnsafeUser", "UnsafeCompilerGenerated"}

\* The expressions visit_expr distinguishes.  A call whose callee path ends in
\* `transmute` and that has exactly one argument carries the argument's and
\* its own type; every other call carries the callee's resolution and type.
Exprs ==
    [node : {"ExprMethodCall"}, ty : FnTys \ {"not_fn"}]
    \cup [node : {"ExprCall"}, transmute1 : {TRUE}, from : PtrTys,
          to : PtrTys, def : {"foreign_local", "fn_extern"},
          style : {"UnsafeFn"}, ty : {"bare_fn_unsafe"}]
    \cup {e \in [node : {"ExprCall"}, transmute1 : {FALSE}, def : Defs,
                  style : FnStyles, ty : FnTys] :
             resolved(e.def, e.style, e.ty)}
    \cup [node : {"ExprUnaryDeref"}, base : {"ptr_imm", "ptr_mut", "other"}]
    \cup [node : {"ExprInlineAsm"}]
    \cup [node : {"ExprPath"}, def : {"DefStatic_mut", "DefStatic", "DefLocal"}]
    \cup [node : {"ExprCast"}, from : PtrTys, to : PtrTys]
    \cup [node : {"ExprLit"}]

\* ----------------------------------------------------------------- state
VARIABLES
    driver,     \* the main that runs: "lib" (unsafe_ls.rs) or "bin" (bin.rs)
    names,      \* number of inputs on the command line (matches.free)
    input,      \* index of the input being processed
    results,    \* how the run of each finished input ended
    session,    \* the flags nonffi and ffi, once the report loop has read them
    pc,         \* "get_ast", "walk", "report", "exit", "aborted"
    node_info,  \* UnsafeVisitor.node_info, the active-region cursor
    unsafes,    \* UnsafeVisitor.unsafes, the Registry: NodeId -> NodeInfo
    stack,      \* activations of visit_fn / visit_block, innermost last
    nodes,      \* number of nodes entered in this run
    exprs,      \* number of expressions visited in this run
    opened,     \* identities for which NodeInfo::new was called in this run
    committed,  \* identities in the order of their insertion into unsafes
    last,       \* the expression visit_expr has just handled, if any
    todo,       \* keys the loop over visitor.unsafes has not reached yet
    out         \* the lines written to stdout

vars == <<driver, names, input, results, session, pc, node_info, unsafes,
          stack, nodes, exprs, opened, committed, last, todo, out>>

\* The variables opened, committed and last, and the fields id, kind and
\* entry of an activation in stack (for visit_fn also inserted), record
\* history: no action reads them, the properties do.  cm.span_to_lines is taken to
\* return at least one line, as it does for every span whose end is not
\* before its start; a span is represented by its start offset.
visitor == <<node_info, unsafes, stack, nodes, exprs, opened, committed>>
process == <<driver, names, input, results>>

NoExpr == [visited |-> FALSE, bucket |-> "none", span |-> 0,
           expr |-> [node |-> "ExprLit"]]
Unread == [read |-> FALSE, nonffi |-> FALSE, ffi |-> FALSE]

\* ------------------------------------------------------------ classifier
\* src/src/visitor.rs: ty_bare_fn with Unsafety::Unsafe
type_is_unsafe_function_lib(ty) == ty = "bare_fn_unsafe"

\* src/visitor.rs: ty_bare_fn or ty_closure with UnsafeFn
type_is_unsafe_function_bin(ty) == ty \in {"bare_fn_unsafe", "closure_unsafe"}

type_is_unsafe_function(ty) ==
    IF driver = "lib" THEN type_is_unsafe_function_lib(ty)
    ELSE type_is_unsafe_function_bin(ty)

\* check_ptr_cast as it would be without its arm for references.
check_ptr_cast_pointers_only(from_ty, to_ty) ==
    IF from_ty = "ptr_imm" /\ to_ty = "ptr_mut"
    THEN "cast_raw_ptr_const_to_mut"
    ELSE "none"

\* The bucket check_ptr_cast pushes the span to; "none" when it returns
\* false.
check_ptr_cast(from_ty, to_ty) ==
    IF from_ty = "rptr_imm" /\ to_ty = "rptr_mut" THEN "transmute_imm_to_mut"
    ELSE IF from_ty = "ptr_imm" /\ to_ty = "ptr_mut"
         THEN "cast_raw_ptr_const_to_mut"
         ELSE "none"

\* ast_util::is_local(did)
is_local(def) == def \in {"foreign_local", "fn_local"}

\* is_ffi as it would be without the test ast_util::is_local(did).
is_ffi_any_crate(def) == def \in {"foreign_local", "fn_extern"}

\* let is_ffi = ...: a DefFn that is local and a NodeForeignItem
is_ffi(def) == def = "foreign_local"

\* The arm `_` of the match on the callee in src/src/visitor.rs.
visit_call_lib(e) ==
    IF is_ffi(e.def) THEN "ffi"
    ELSE IF type_is_unsafe_function(e.ty) THEN "unsafe_call"
         ELSE "none"

\* The arm `_` of the match on the callee in src/visitor.rs.
visit_call_bin(e) ==
    IF e.def # "no_def" /\ e.style = "UnsafeFn"
    THEN IF is_local(e.def)
         THEN IF e.def = "foreign_local" THEN "ffi" ELSE "unsafe_call"
         ELSE "unsafe_call"
    ELSE IF type_is_unsafe_function(e.ty) THEN "unsafe_call"
         ELSE "none"

visit_call(e) ==
    IF driver = "lib" THEN visit_call_lib(e) ELSE visit_call_bin(e)

\* visit_cast as it would be if a cast fell back to `transmute` the way
\* a transmute call does.
visit_cast_falls_back(e) ==
    IF check_ptr_cast(e.from, e.to) # "none"
    THEN check_ptr_cast(e.from, e.to)
    ELSE "transmute"

\* The arm ExprCast: the result of check_ptr_cast is dropped.
visit_cast(e) == check_ptr_cast(e.from, e.to)

\* The bucket visit_expr pushes expr.span to while a region is active.
visit_expr_bucket(e) ==
    CASE e.node = "ExprMethodCall" ->
            IF type_is_unsafe_function(e.ty) THEN "unsafe_call" ELSE "none"
      [] e.node = "ExprCall" ->
            IF e.transmute1
            THEN IF check_ptr_cast(e.from, e.to) # "none"
                 THEN check_ptr_cast(e.from, e.to)
                 ELSE "transmute"
            ELSE visit_call(e)
      [] e.node = "ExprUnaryDeref" ->
            IF e.base \in {"ptr_imm", "ptr_mut"} THEN "raw_deref" ELSE "none"
      [] e.node = "ExprInlineAsm" -> "asm"
      [] e.node = "ExprPath" ->
            IF e.def = "DefStatic_mut" THEN "static_mut" ELSE "none"
      [] e.node = "ExprCast" -> visit_cast(e)
      [] OTHER -> "none"

push(info, bucket, span) == [info EXCEPT ![bucket] = Append(@, span)]

\* ------------------------------------------------------------------ main
\* The state in which main enters its loop over the inputs.
InitWith(drivers, n) ==
    /\ driver \in drivers
    /\ names = n
    /\ input = 1
    /\ results = << >>
    /\ session = Unread
    /\ pc = "get_ast"
    /\ node_info = None
    /\ unsafes = << >>
    /\ stack = << >>
    /\ nodes = 0
    /\ exprs = 0
    /\ opened = {}
    /\ committed = << >>
    /\ last = NoExpr
    /\ todo = << >>
    /\ out = << >>

\* join as it would be if main unwrapped the result of the run.
join_unwrap(outcome) ==
    IF outcome = "ok" THEN "continue" ELSE "abort"

\* What main does with the outcome of a run.  In the library driver the run
\* is a scoped thread whose join result is dropped; in src/bin.rs the run
\* is inline in main, so a failure unwinds main itself.
join(outcome) ==
    IF driver = "lib" \/ outcome = "ok" THEN "continue" ELSE "abort"

\* end_run as it would be if the loop did not move on to the next input.
end_run_same_input(outcome) ==
    /\ results' = Append(results, outcome)
    /\ input' = input
    /\ pc' = IF join(outcome) = "abort" THEN "aborted" ELSE "get_ast"

\* The end of one iteration of the loop over the inputs.
end_run(outcome) ==
    /\ results' = Append(results, outcome)
    /\ IF join(outcome) = "abort"
       THEN pc' = "aborted" /\ input' = input
       ELSE /\ input' = input + 1
            /\ pc' = IF input = names THEN "exit" ELSE "get_ast"

\* get_ast hands the type context to the closure: UnsafeVisitor::new.
get_ast_ok ==
    /\ pc = "get_ast"
    /\ pc' = "walk"
    /\ node_info' = None
    /\ unsafes' = << >>
    /\ stack' = << >>
    /\ nodes' = 0
    /\ exprs' = 0
    /\ opened' = {}
    /\ committed' = << >>
    /\ last' = NoExpr
    /\ todo' = << >>
    /\ UNCHANGED <<process, session, out>>

\* The Program Model provider fails (the input does not compile).
get_ast_fail ==
    /\ pc = "get_ast"
    /\ end_run("failed")
    /\ UNCHANGED <<driver, names, session, visitor, last, todo, out>>

\* ------------------------------------------------------------ region walk
Top == stack[Len(stack)]
Pop == SubSeq(stack, 1, Len(stack) - 1)

\* visit_fn_cursor as it would be if a closure were handled like a named
\* item whose previous cursor is not kept.
visit_fn_cursor_closure_resets(is_item_fn, is_unsafe_fn, node_id, span, cur) ==
    IF is_unsafe_fn THEN Some(node_id, NodeInfo_new(span, TRUE, FALSE))
    ELSE None

\* visit_fn_cursor as it would be if a safe named item kept the cursor.
visit_fn_cursor_safe_keeps(is_item_fn, is_unsafe_fn, node_id, span, cur) ==
    IF is_unsafe_fn THEN Some(node_id, NodeInfo_new(span, TRUE, FALSE))
    ELSE cur

\* The cursor visit_fn installs before walking the body.
visit_fn_cursor(is_item_fn, is_unsafe_fn, node_id, span, cur) ==
    IF is_unsafe_fn THEN Some(node_id, NodeInfo_new(span, TRUE, FALSE))
    ELSE IF is_item_fn THEN None
    ELSE cur

\* The value of the local old_node_info of visit_fn.
visit_fn_saved(is_item_fn, is_unsafe_fn, cur) ==
    IF is_unsafe_fn \/ is_item_fn THEN cur ELSE None

\* visit_fn up to the call of visit::walk_fn.
visit_fn_enter(fn_kind, unsafety, span, node_id) ==
    LET is_item_fn == fn_kind \in {"FkItemFn", "FkMethod"}
        is_unsafe_fn == is_item_fn /\ unsafety
    IN  /\ pc = "walk"
        /\ nodes' = nodes + 1
        /\ node_info' = visit_fn_cursor(is_item_fn, is_unsafe_fn, node_id,
                                        span, node_info)
        /\ stack' = Append(stack,
              [fn |-> "visit_fn", id |-> node_id,
               kind |-> IF is_unsafe_fn THEN "unsafe_item"
                        ELSE IF is_item_fn THEN "safe_item" ELSE "closure",
               old_node_info |-> visit_fn_saved(is_item_fn, is_unsafe_fn,
                                                node_info),
               inserted |-> is_unsafe_fn,
               entry |-> node_info])
        /\ opened' = IF is_unsafe_fn THEN opened \cup {node_id} ELSE opened
        /\ last' = NoExpr
        /\ UNCHANGED <<process, session, pc, unsafes, exprs, committed, todo,
                       out>>

\* insert as it would be if the map kept only its newest entry.
insert_forgets(map, id, info) == [k \in {id} |-> info]

\* BTreeMap::insert
insert(map, id, info) ==
    [k \in DOMAIN map \cup {id} |-> IF k = id THEN info ELSE map[k]]

\* commit_and_restore as it would be with the arm that is commented out
\* in the source: Some((id, info)) => { self.unsafes.insert(id, info); }
commit_and_restore_unasserted(old) ==
    /\ node_info' = old
    /\ stack' = Pop
    /\ unsafes' = IF node_info.tag = "Some"
                  THEN insert(unsafes, node_info.id, node_info.info)
                  ELSE unsafes
    /\ committed' = IF node_info.tag = "Some"
                    THEN Append(committed, node_info.id)
                    ELSE committed
    /\ UNCHANGED <<pc, input, results>>

\* match replace(&mut self.node_info, old) { Some((id, info)) =>
\* assert!(self.unsafes.insert(id, info).is_none()), None => {} }
\* A failed assertion unwinds the run.
commit_and_restore(old) ==
    /\ node_info' = old
    /\ stack' = Pop
    /\ IF node_info.tag = "Some"
       THEN /\ unsafes' = insert(unsafes, node_info.id, node_info.info)
            /\ committed' = Append(committed, node_info.id)
            /\ IF node_info.id \in DOMAIN unsafes
               THEN end_run("panicked")
               ELSE UNCHANGED <<pc, input, results>>
       ELSE UNCHANGED <<unsafes, committed, pc, input, results>>

\* visit_fn after visit::walk_fn has returned.
visit_fn_leave ==
    /\ pc = "walk"
    /\ stack # << >>
    /\ Top.fn = "visit_fn"
    /\ commit_and_restore(Top.old_node_info)
    /\ last' = NoExpr
    /\ UNCHANGED <<driver, names, session, nodes, exprs, opened, todo, out>>

\* Whether visit_block opens a region for a block with these rules.
visit_block_opens(rules, cur) ==
    /\ rules # "DefaultBlock"
    /\ (cur.tag = "None" \/ rules = "UnsafeCompilerGenerated")

\* visit_block up to the call of visit::walk_block.
visit_block_enter(rules, span, id) ==
    LET ins == visit_block_opens(rules, node_info)
    IN  /\ pc = "walk"
        /\ nodes' = nodes + 1
        /\ node_info' =
              IF ins
              THEN Some(id, NodeInfo_new(span, FALSE,
                                         rules = "UnsafeCompilerGenerated"))
              ELSE node_info
        /\ stack' = Append(stack,
              [fn |-> "visit_block", id |-> id, kind |-> rules,
               old_node_info |-> IF ins THEN node_info ELSE None,
               inserted |-> ins,
               entry |-> node_info])
        /\ opened' = IF ins THEN opened \cup {id} ELSE opened
        /\ last' = NoExpr
        /\ UNCHANGED <<process, session, pc, unsafes, exprs, committed, todo,
                       out>>

\* visit_block after visit::walk_block has returned.
visit_block_leave ==
    /\ pc = "walk"
    /\ stack # << >>
    /\ Top.fn = "visit_block"
    /\ IF Top.inserted
       THEN commit_and_restore(Top.old_node_info)
       ELSE /\ stack' = Pop
            /\ UNCHANGED <<node_info, unsafes, committed, pc, input,
                           results>>
    /\ last' = NoExpr
    /\ UNCHANGED <<driver, names, session, nodes, exprs, opened, todo, out>>

\* visit_expr_cursor as it would be if a transmute call that check_ptr_cast
\* has recorded were pushed to `transmute` as well.
visit_expr_cursor_pushes_twice(cur, e, span) ==
    IF cur.tag = "Some" /\ visit_expr_bucket(e) # "none"
    THEN IF e.node = "ExprCall" /\ visit_expr_bucket(e) # "transmute"
         THEN Some(cur.id, push(push(cur.info, visit_expr_bucket(e), span),
                                "transmute", span))
         ELSE Some(cur.id, push(cur.info, visit_expr_bucket(e), span))
    ELSE cur

\* visit_expr_cursor as it would be without the test is_some(), an empty
\* cursor getting a region for the expression.
visit_expr_cursor_unguarded(cur, e, span) ==
    IF visit_expr_bucket(e) = "none" THEN cur
    ELSE IF cur.tag = "Some"
         THEN Some(cur.id, push(cur.info, visit_expr_bucket(e), span))
         ELSE Some(0, push(NodeInfo_new(span, FALSE, FALSE),
                           visit_expr_bucket(e), span))

\* The cursor after visit_expr: if self.node_info.is_some() { ... }
visit_expr_cursor(cur, e, span) ==
    IF cur.tag = "Some" /\ visit_expr_bucket(e) # "none"
    THEN Some(cur.id, push(cur.info, visit_expr_bucket(e), span))
    ELSE cur

\* visit_expr; the children of the expression are visited by later steps.
visit_expr(e, span) ==
    /\ pc = "walk"
    /\ exprs' = exprs + 1
    /\ node_info' = visit_expr_cursor(node_info, e, span)
    /\ last' = [visited |-> TRUE, bucket |-> visit_expr_bucket(e),
                span |-> span, expr |-> e]
    /\ UNCHANGED <<process, session, pc, unsafes, stack, nodes, opened,
                   committed, todo, out>>

\* keys as it would be if the map were iterated in the order of insertion.
keys_insertion_order(map) == committed

\* check_crate returns: the whole tree has been walked, and the loop over
\* visitor.unsafes begins.  The flags of the command line are first read
\* here; they are drawn at this point and kept for the later runs.
\* BTreeMap::iter yields the keys in ascending order.
keys(map) ==
    LET RECURSIVE asc(_)
        asc(S) == IF S = {} THEN << >>
                  ELSE LET m == CHOOSE x \in S : \A y \in S : x <= y
                       IN  <<m>> \o asc(S \ {m})
    IN  asc(DOMAIN map)

check_crate_return(nonffi, ffi) ==
    /\ pc = "walk"
    /\ stack = << >>
    /\ pc' = "report"
    /\ todo' = keys(unsafes)
    /\ session' = IF session.read THEN session
                  ELSE [read |-> TRUE, nonffi |-> nonffi, ffi |-> ffi]
    /\ last' = NoExpr
    /\ UNCHANGED <<process, visitor, out>>

\* ---------------------------------------------------------------- report
\* let n = ... in src/src/unsafe_ls.rs
count_nonffi_lib(info) ==
    Len(info.raw_deref) + Len(info.static_mut) + Len(info.unsafe_call)
    + Len(info.asm) + Len(info.transmute) + Len(info.transmute_imm_to_mut)
    + Len(info.cast_raw_ptr_const_to_mut)

\* let n = ... in src/bin.rs
count_nonffi_bin(info) ==
    Len(info.raw_deref) + Len(info.static_mut) + Len(info.unsafe_call)
    + Len(info.asm) + Len(info.transmute)

count_nonffi(info) ==
    IF driver = "lib" THEN count_nonffi_lib(info) ELSE count_nonffi_bin(info)

\* skipped as it would be without the test of info.compiler.
skipped_never(info) == FALSE

\* if info.compiler { continue }
skipped(info) == info.compiler

\* reported as it would be with >= for >.
reported_nonstrict(info) ==
    \/ session.nonffi /\ count_nonffi(info) >= 0
    \/ session.ffi /\ Len(info.ffi) >= 0

\* if (self.nonffi && n > 0) || (self.ffi && f > 0)
reported(info) ==
    \/ session.nonffi /\ count_nonffi(info) > 0
    \/ session.ffi /\ Len(info.ffi) > 0

\* the buckets pushed to v under nonffi in src/src/unsafe_ls.rs
nonffi_spans_lib(info) ==
    info.raw_deref \o info.static_mut \o info.unsafe_call \o info.asm
    \o info.transmute \o info.transmute_imm_to_mut
    \o info.cast_raw_ptr_const_to_mut

\* the buckets pushed to v under nonffi in src/bin.rs
nonffi_spans_bin(info) ==
    info.raw_deref \o info.static_mut \o info.unsafe_call \o info.asm
    \o info.transmute

\* collect as it would be without the tests of the flags.
collect_ignores_flags(info) ==
    (IF driver = "lib" THEN nonffi_spans_lib(info)
     ELSE nonffi_spans_bin(info))
    \o info.ffi

\* the vector v of the spans to print
collect(info) ==
    (IF session.nonffi
     THEN IF driver = "lib" THEN nonffi_spans_lib(info)
          ELSE nonffi_spans_bin(info)
     ELSE << >>)
    \o (IF session.ffi THEN info.ffi ELSE << >>)

\* sort_by_lo as it would be without the call of sort_by.
sort_by_lo_unsorted(v) == v

\* v.as_mut_slice().sort_by(|a, b| a.lo.cmp(&b.lo)): a stable sort
sort_by_lo(v) ==
    LET RECURSIVE ins(_, _)
        ins(x, s) == IF s = << >> THEN <<x>>
                     ELSE IF x < Head(s) THEN <<x>> \o s
                     ELSE <<Head(s)>> \o ins(x, Tail(s))
        RECURSIVE srt(_)
        srt(s) == IF s = << >> THEN << >>
                  ELSE ins(s[Len(s)], srt(SubSeq(s, 1, Len(s) - 1)))
    IN  srt(v)

\* unseen as it would be if `seen` were created once, before the loop over
\* the regions.
unseen_in_run(t, seen) ==
    /\ t \notin seen
    /\ \A i \in 1..Len(out) :
          (out[i].kind = "line" /\ out[i].run = input) =>
             [file |-> out[i].file, line |-> out[i].line] # t

\* if !seen.contains(&t)
unseen(t, seen) == t \notin seen

\* the loop over v with the set `seen`
print_lines(id, v) ==
    LET RECURSIVE loop(_, _)
        loop(s, seen) ==
            IF s = << >> THEN << >>
            ELSE LET t == span_to_lines(Head(s))
                 IN  IF unseen(t, seen)
                     THEN <<[kind |-> "line", run |-> input, region |-> id,
                             file |-> t.file, line |-> t.line,
                             lo |-> Head(s)]>>
                          \o loop(Tail(s), seen \cup {t})
                     ELSE loop(Tail(s), seen)
    IN  loop(v, {})

\* The label of the raw-pointer cast: src/src/visitor.rs, src/visitor.rs.
cast_label_lib == "cast *const to *mut"
cast_label_bin == "cast * to *mut"

\* The labels of impl fmt::Debug for NodeInfo, in the order of the p!
\* invocations.
Labels ==
    << <<"asm", "asm">>, <<"deref", "raw_deref">>, <<"ffi", "ffi">>,
       <<"static mut", "static_mut">>, <<"transmute", "transmute">>,
       <<"transmute & to &mut", "transmute_imm_to_mut">>,
       <<IF driver = "lib" THEN cast_label_lib ELSE cast_label_bin,
         "cast_raw_ptr_const_to_mut">>,
       <<"unsafe call", "unsafe_call">> >>

\* fmt as it would be if p! did not test is_empty.
fmt_prints_empty(info) ==
    LET RECURSIVE p(_, _)
        p(i, first) ==
            IF i > Len(Labels) THEN ""
            ELSE (IF first THEN "" ELSE ", ")
                 \o ToString(Len(info[Labels[i][2]])) \o " "
                 \o Labels[i][1] \o p(i + 1, FALSE)
    IN  p(1, TRUE)

\* impl fmt::Debug for NodeInfo: the macro p! with its flag `first`
fmt(info) ==
    LET RECURSIVE p(_, _)
        p(i, first) ==
            IF i > Len(Labels) THEN ""
            ELSE IF info[Labels[i][2]] # << >>
                 THEN (IF first THEN "" ELSE ", ")
                      \o ToString(Len(info[Labels[i][2]])) \o " "
                      \o Labels[i][1] \o p(i + 1, FALSE)
                 ELSE p(i + 1, first)
    IN  p(1, TRUE)

\* println!("{}:{}:{}: {} with {:?}", ...)
summary(id, info) ==
    LET lo == lookup_char_pos_adj(info.span)
    IN  [kind |-> "summary", run |-> input, region |-> id,
         text |-> lo.filename \o ":" \o ToString(lo.line) \o ":"
                  \o ToString(lo.col + 1) \o ": "
                  \o (IF info.is_fn THEN "fn" ELSE "block")
                  \o " with " \o fmt(info)]

\* One iteration of the loop over visitor.unsafes.
report_region ==
    /\ pc = "report"
    /\ todo # << >>
    /\ LET id == Head(todo)
           info == unsafes[id]
       IN  out' = IF ~skipped(info) /\ reported(info)
                  THEN out \o <<summary(id, info)>>
                       \o print_lines(id, sort_by_lo(collect(info)))
                  ELSE out
    /\ todo' = Tail(todo)
    /\ UNCHANGED <<process, session, pc, visitor, last>>

\* The loop is over: the closure and run_library return.
run_library_return ==
    /\ pc = "report"
    /\ todo = << >>
    /\ end_run("ok")
    /\ UNCHANGED <<driver, names, session, visitor, last, todo, out>>

\* ----------------------------------------------------------- specifications
\* The expressions of Spec: one that is hazardous, one that is a foreign
\* call, one that is harmless.
TrackerExprs ==
    {[node |-> "ExprUnaryDeref", base |-> "ptr_mut"],
     [node |-> "ExprCall", transmute1 |-> FALSE, def |-> "foreign_local",
      style |-> "UnsafeFn", ty |-> "bare_fn_unsafe"],
     [node |-> "ExprLit"]}

Init == InitWith({"lib"}, 1)

\* The region tracker: one input, node identities unique.
Next ==
    \/ get_ast_ok
    \/ nodes + exprs < MaxSize /\ \E k \in FnKinds, u \in BOOLEAN :
          visit_fn_enter(k, u, 0, nodes + 1)
    \/ visit_fn_leave
    \/ nodes + exprs < MaxSize /\ \E r \in BlockRules :
          visit_block_enter(r, 0, nodes + 1)
    \/ visit_block_leave
    \/ nodes + exprs < MaxSize /\ \E e \in TrackerExprs : visit_expr(e, 0)
    \/ \E n \in BOOLEAN, f \in BOOLEAN : check_crate_return(n, f)
    \/ report_region
    \/ run_library_return

Spec == Init /\ [][Next]_vars

\* The expressions of SpecReport: one for every bucket.
ReportExprs ==
    {[node |-> "ExprUnaryDeref", base |-> "ptr_imm"],
     [node |-> "ExprCall", transmute1 |-> FALSE, def |-> "foreign_local",
      style |-> "UnsafeFn", ty |-> "bare_fn_unsafe"],
     [node |-> "ExprCall", transmute1 |-> FALSE, def |-> "fn_extern",
      style |-> "UnsafeFn", ty |-> "bare_fn_unsafe"],
     [node |-> "ExprCall", transmute1 |-> TRUE, from |-> "other",
      to |-> "other", def |-> "fn_extern", style |-> "UnsafeFn",
      ty |-> "bare_fn_unsafe"],
     [node |-> "ExprCast", from |-> "rptr_imm", to |-> "rptr_mut"],
     [node |-> "ExprCast", from |-> "ptr_imm", to |-> "ptr_mut"],
     [node |-> "ExprPath", def |-> "DefStatic_mut"],
     [node |-> "ExprInlineAsm"]}

InitReport == InitWith({"lib", "bin"}, 1)

\* Walk and report of one input, under either driver.
NextReport ==
    \/ get_ast_ok
    \/ get_ast_fail
    \/ nodes + exprs < ReportMaxSize /\ \E k \in FnKinds, u \in BOOLEAN :
          visit_fn_enter(k, u, 0, nodes + 1)
    \/ visit_fn_leave
    \/ nodes + exprs < ReportMaxSize /\ \E r \in BlockRules :
          visit_block_enter(r, 0, nodes + 1)
    \/ visit_block_leave
    \/ nodes + exprs < ReportMaxSize /\ \E e \in ReportExprs, s \in Offsets :
          visit_expr(e, s)
    \/ \E n \in BOOLEAN, f \in BOOLEAN : check_crate_return(n, f)
    \/ report_region
    \/ run_library_return

SpecReport == InitReport /\ [][NextReport]_vars

\* The region tracker with its report, under either driver.
SpecTrack == InitReport /\ [][Next]_vars

\* The expressions a driver can meet: the types of the compiler that
\* src/src/visitor.rs is written for have no unsafe closure type.
ExprsOf(d) ==
    {e \in Exprs :
       d = "lib" =>
          \/ e.node \notin {"ExprMethodCall", "ExprCall"}
          \/ e.ty # "closure_unsafe"}

InitClassify == InitWith({"lib", "bin"}, 1)

\* The operation classifier: every kind of expression, under the visitor
\* of either driver; the span of an expression is its position in the
\* walk, so no two expressions share a span.
NextClassify ==
    \/ get_ast_ok
    \/ nodes + exprs < ClassifyMaxSize /\ \E k \in FnKinds, u \in BOOLEAN :
          visit_fn_enter(k, u, 0, nodes + 1)
    \/ visit_fn_leave
    \/ nodes + exprs < ClassifyMaxSize /\ \E r \in BlockRules :
          visit_block_enter(r, 0, nodes + 1)
    \/ visit_block_leave
    \/ nodes + exprs < ClassifyMaxSize /\ \E e \in ExprsOf(driver) :
          visit_expr(e, exprs)
    \/ \E n \in BOOLEAN, f \in BOOLEAN : check_crate_return(n, f)
    \/ report_region
    \/ run_library_return

SpecClassify == InitClassify /\ [][NextClassify]_vars

InitMain == InitWith({"lib"}, MaxInputs)

\* The loop of main over several inputs in src/src/unsafe_ls.rs.  The node
\* identities come from the Program Model and are not assumed unique here.
NextMain ==
    \/ get_ast_ok
    \/ get_ast_fail
    \/ nodes + exprs < MainMaxSize /\ \E k \in FnKinds, u \in BOOLEAN,
                                  id \in 1..(nodes + 1) :
          visit_fn_enter(k, u, 0, id)
    \/ visit_fn_leave
    \/ nodes + exprs < MainMaxSize /\ \E r \in BlockRules,
                                         id \in 1..(nodes + 1) :
          visit_block_enter(r, 0, id)
    \/ visit_block_leave
    \/ nodes + exprs < MainMaxSize /\ \E e \in TrackerExprs : visit_expr(e, 0)
    \/ \E n \in BOOLEAN, f \in BOOLEAN : check_crate_return(n, f)
    \/ report_region
    \/ run_library_return

SpecMain == InitMain /\ [][NextMain]_vars

\* ------------------------------------------------------------ properties
\* Where the region with this identity is held: in the cursor, in the local
\* old_node_info of an activation, in the Registry.
Holders(id) ==
    (IF node_info.tag = "Some" /\ node_info.id = id THEN 1 ELSE 0)
    + Cardinality({i \in 1..Len(stack) :
                     /\ stack[i].old_node_info.tag = "Some"
                     /\ stack[i].old_node_info.id = id})
    + (IF id \in DOMAIN unsafes THEN 1 ELSE 0)

\* The last step was visit_expr on a hazardous expression.
Hazard == last.visited /\ last.bucket # "none"

\* The span of the last expression is the newest entry of its bucket in the
\* active region, and that region is `id`.
AppendedTo(id) ==
    /\ node_info.tag = "Some"
    /\ node_info.id = id
    /\ node_info.info[last.bucket] # << >>
    /\ node_info.info[last.bucket][Len(node_info.info[last.bucket])]
          = last.span

\* C1: over a walk with unique node identities, every region created on
\* entering an unsafe item or an unsafe block is held in exactly one place
\* while the walk lasts, the duplicate-insert assertion never fails, and
\* when check_crate returns the cursor is Empty and the Registry holds
\* exactly the created regions (each inserted once).
C1_CommittedExactlyOnce ==
    /\ \A i \in 1..Len(results) : results[i] # "panicked"
    /\ pc = "walk" => \A id \in opened : Holders(id) = 1
    /\ pc \in {"report", "exit"} =>
          /\ node_info = None
          /\ DOMAIN unsafes = opened

C1_Witness ==
    /\ pc = "report"
    /\ \E a \in DOMAIN unsafes, b \in DOMAIN unsafes :
          /\ unsafes[a].is_fn
          /\ ~unsafes[b].is_fn
          /\ unsafes[b].raw_deref # << >>

\* The walk is in the body of a safe named item, outside any unsafe item or
\* region-opening block of that body.
InSafeBody ==
    \E i \in 1..Len(stack) :
       /\ stack[i].kind = "safe_item"
       /\ \A j \in (i + 1)..Len(stack) : ~stack[j].inserted

\* C2: in the body of a safe named item (outside unsafe blocks and items of
\* its own) no region is active, so visit_expr appends nothing to any
\* region; leaving the item makes the region that was active on entry the
\* active region again, with the buckets it had on entry.
C2_SafeItemIsolates ==
    /\ [](InSafeBody => node_info = None)
    /\ [][(pc = "walk" /\ exprs' = exprs + 1 /\ InSafeBody) =>
             (node_info' = node_info /\ unsafes' = unsafes
              /\ stack' = stack)]_vars
    /\ [][(pc = "walk" /\ stack # << >> /\ Top.kind = "safe_item"
           /\ stack' = Pop) =>
             (node_info' = Top.entry /\ unsafes' = unsafes)]_vars

C2_Witness ==
    /\ stack # << >>
    /\ Top.kind = "safe_item"
    /\ Top.entry.tag = "Some"
    /\ Hazard

\* C3: a closure creates no region of its own, and a hazardous expression
\* visited in the body of a closure that was entered while region R was
\* active is appended to R.
C3_ClosureAttributesToEnclosing ==
    /\ \A i \in 1..Len(stack) :
          stack[i].kind = "closure" =>
             stack[i].id \notin opened \cup DOMAIN unsafes
    /\ (Hazard /\ stack # << >> /\ Top.kind = "closure"
        /\ Top.entry.tag = "Some") => AppendedTo(Top.entry.id)

\* C4: an author-written unsafe block entered while a region is active
\* gets no Registry entry of its own, and a hazardous expression visited in
\* that block is appended to the region that was active on entry.
C4_NestedBlockFolds ==
    /\ \A i \in 1..Len(stack) :
          (stack[i].kind = "UnsafeUser" /\ stack[i].entry.tag = "Some") =>
             /\ ~stack[i].inserted
             /\ stack[i].id \notin opened \cup DOMAIN unsafes
    /\ (Hazard /\ stack # << >> /\ Top.kind = "UnsafeUser"
        /\ Top.entry.tag = "Some") => AppendedTo(Top.entry.id)

\* The lines of stdout that belong to the report of region `id`.
Lines(id) ==
    LET test(l) == l.kind = "line" /\ l.region = id
    IN  SelectSeq(out, test)

Summaries(id) ==
    LET test(l) == l.kind = "summary" /\ l.region = id
    IN  SelectSeq(out, test)

\* The loop over visitor.unsafes has passed region `id`.
Processed(id) ==
    /\ pc \in {"report", "exit"}
    /\ id \in DOMAIN unsafes
    /\ \A i \in 1..Len(todo) : todo[i] # id

AllEmpty(info) == \A b \in BucketSet : info[b] = << >>

\* C5: under either driver a region that is not compiler-generated is
\* reported iff (wantOther and otherCount > 0) or (wantFFI and ffiCount > 0),
\* otherCount being the size of all seven non-FFI buckets.
C5_OtherCount(info) ==
    Len(info.raw_deref) + Len(info.static_mut) + Len(info.unsafe_call)
    + Len(info.asm) + Len(info.transmute) + Len(info.transmute_imm_to_mut)
    + Len(info.cast_raw_ptr_const_to_mut)

C5_ReportedIff ==
    \A id \in DOMAIN unsafes :
       (Processed(id) /\ ~unsafes[id].compiler) =>
          (Summaries(id) # << >>
             <=> \/ session.nonffi /\ C5_OtherCount(unsafes[id]) > 0
                 \/ session.ffi /\ Len(unsafes[id].ffi) > 0)

\* C6: a compiler-generated region is in the Registry after the walk and
\* no line of stdout belongs to it, whatever the flags and its buckets.
C6_CompilerGeneratedSilent ==
    /\ pc \in {"report", "exit"} => opened \subseteq DOMAIN unsafes
    /\ \A id \in DOMAIN unsafes :
          unsafes[id].compiler =>
             \A i \in 1..Len(out) : out[i].region # id

C6_Witness ==
    \E id \in DOMAIN unsafes :
       /\ Processed(id)
       /\ unsafes[id].compiler
       /\ unsafes[id].raw_deref # << >>
       /\ unsafes[id].ffi # << >>
       /\ session.nonffi
       /\ session.ffi

\* C7: an unsafe function or region-opening unsafe block without recorded
\* hazards is in the Registry after the walk, with all buckets empty, and
\* no line of stdout belongs to it, whatever the flags.
C7_EmptyRegionSilent ==
    /\ pc \in {"report", "exit"} =>
          \A id \in opened : id \in DOMAIN unsafes
    /\ \A id \in DOMAIN unsafes :
          AllEmpty(unsafes[id]) =>
             /\ Lines(id) = << >>
             /\ Summaries(id) = << >>

C7_Witness ==
    \E id \in DOMAIN unsafes :
       /\ Processed(id)
       /\ AllEmpty(unsafes[id])
       /\ ~unsafes[id].compiler
       /\ unsafes[id].is_fn
       /\ session.nonffi
       /\ session.ffi

\* The spans both drivers select for printing under the current flags.
C8_Selected(info) ==
    (IF session.ffi THEN {info.ffi[i] : i \in 1..Len(info.ffi)} ELSE {})
    \cup (IF session.nonffi
          THEN UNION {{info[b][i] : i \in 1..Len(info[b])} :
                        b \in {"raw_deref", "static_mut", "unsafe_call",
                               "asm", "transmute"}}
          ELSE {})

\* C8: the source lines of a reported region follow its summary, are in
\* ascending order of the start offset of the spans that produced them,
\* and every (line, file) pair of a selected span is printed exactly once.
C8_LinesSortedDistinct ==
    \A id \in DOMAIN unsafes :
       Processed(id) =>
          LET L == Lines(id)
          IN  /\ \A i \in 1..Len(L), j \in 1..Len(L) :
                    i < j =>
                       /\ L[i].lo < L[j].lo
                       /\ <<L[i].line, L[i].file>> # <<L[j].line, L[j].file>>
              /\ Summaries(id) = << >> => L = << >>
              /\ Summaries(id) # << >> =>
                    \A sp \in C8_Selected(unsafes[id]) :
                       Cardinality({i \in 1..Len(L) :
                          /\ L[i].line = span_to_lines(sp).line
                          /\ L[i].file = span_to_lines(sp).file}) = 1
              /\ \A i \in 1..Len(out), j \in 1..Len(out) :
                    (out[i].region = id /\ out[j].region = id
                     /\ out[i].kind = "summary" /\ out[j].kind = "line")
                       => i < j

C8_Witness ==
    \E id \in DOMAIN unsafes :
       /\ Processed(id)
       /\ unsafes[id].raw_deref = <<2>>
       /\ unsafes[id].ffi = <<0>>
       /\ session.nonffi
       /\ session.ffi
       /\ Len(Lines(id)) = 2
       /\ Lines(id)[1].lo = 0
       /\ Lines(id)[2].lo = 2

\* C9: in the driver of src/src/unsafe_ls.rs a failed run never terminates
\* the process; it is followed by the start of the run of the next input,
\* and main returns only when every input has had its run.
C9_FailureIsolated ==
    /\ [](pc # "aborted")
    /\ [](pc = "exit" => Len(results) = names)
    /\ [][(Len(results') = Len(results) + 1
           /\ results'[Len(results')] # "ok" /\ input < names) =>
             (pc' = "get_ast" /\ input' = input + 1)]_vars

C9_Witness ==
    /\ pc = "exit"
    /\ results = <<"panicked", "ok">>
    /\ \E i \in 1..Len(out) : out[i].run = 2

\* The categories in the order of the summary, with their label texts.
C10_Categories ==
    <<"asm", "raw_deref", "ffi", "static_mut", "transmute",
      "transmute_imm_to_mut", "cast_raw_ptr_const_to_mut", "unsafe_call">>

C10_Label(b) ==
    CASE b = "asm" -> "asm"
      [] b = "raw_deref" -> "deref"
      [] b = "ffi" -> "ffi"
      [] b = "static_mut" -> "static mut"
      [] b = "transmute" -> "transmute"
      [] b = "transmute_imm_to_mut" -> "transmute & to &mut"
      [] b = "cast_raw_ptr_const_to_mut" ->
            IF driver = "lib" THEN "cast *const to *mut" ELSE "cast * to *mut"
      [] b = "unsafe_call" -> "unsafe call"

C10_List(info) ==
    LET nonempty(b) == Len(info[b]) > 0
        cats == SelectSeq(C10_Categories, nonempty)
        RECURSIVE joined(_)
        joined(k) ==
            IF k = 0 THEN ""
            ELSE joined(k - 1) \o (IF k = 1 THEN "" ELSE ", ")
                 \o ToString(Len(info[cats[k]])) \o " " \o C10_Label(cats[k])
    IN  joined(Len(cats))

\* C10: a summary line says "fn" for a function region and "block"
\* otherwise, and lists exactly the non-empty categories with their sizes
\* in the fixed order, whatever the flags; a function with one dereference
\* and one foreign call yields "fn with 1 deref, 1 ffi".
C10_SummaryText ==
    \A i \in 1..Len(out) :
       out[i].kind = "summary" =>
          LET info == unsafes[out[i].region]
              at == lookup_char_pos_adj(info.span)
              where == at.filename \o ":" \o ToString(at.line) \o ":"
                       \o ToString(at.col + 1) \o ": "
          IN  /\ out[i].text =
                    where \o (IF info.is_fn THEN "fn" ELSE "block")
                    \o " with " \o C10_List(info)
              /\ (/\ info.is_fn
                  /\ Len(info.raw_deref) = 1
                  /\ Len(info.ffi) = 1
                  /\ \A b \in BucketSet \ {"raw_deref", "ffi"} :
                        info[b] = << >>)
                    => out[i].text = where \o "fn with 1 deref, 1 ffi"

C10_Witness ==
    \E i \in 1..Len(out) :
       /\ out[i].kind = "summary"
       /\ out[i].text = "a:1:1: fn with 1 deref, 1 ffi"

\* Every region record the visitor holds: the cursor's, the saved ones of
\* the activations, the Registry's.
AllInfos ==
    (IF node_info.tag = "Some" THEN <<node_info.info>> ELSE << >>)
    \o [i \in 1..Len(SelectSeq(stack,
                              LAMBDA f : f.old_node_info.tag = "Some")) |->
          SelectSeq(stack,
                    LAMBDA f : f.old_node_info.tag = "Some")[i]
             .old_node_info.info]
    \o [i \in 1..Len(keys(unsafes)) |-> unsafes[keys(unsafes)[i]]]

\* The places (record, bucket, position) at which span sp is recorded.
Occurrences(sp) ==
    {t \in (1..Len(AllInfos)) \X BucketSet \X (1..exprs) :
       /\ t[3] <= Len(AllInfos[t[1]][t[2]])
       /\ AllInfos[t[1]][t[2]][t[3]] = sp}

\* The spans recorded in a region, bucket after bucket.
SpansOf(info) ==
    info.ffi \o info.raw_deref \o info.static_mut \o info.unsafe_call
    \o info.transmute \o info.transmute_imm_to_mut
    \o info.cast_raw_ptr_const_to_mut \o info.asm

\* The spans recorded anywhere: in the cursor's region, in the saved
\* regions of the activations, in the Registry.
AllSpans ==
    LET RECURSIVE saved(_)
        saved(i) ==
            IF i = 0 THEN << >>
            ELSE saved(i - 1)
                 \o (IF stack[i].old_node_info.tag = "Some"
                     THEN SpansOf(stack[i].old_node_info.info)
                     ELSE << >>)
        RECURSIVE registered(_)
        registered(S) ==
            IF S = {} THEN << >>
            ELSE LET id == CHOOSE x \in S : TRUE
                 IN  SpansOf(unsafes[id]) \o registered(S \ {id})
    IN  (IF node_info.tag = "Some" THEN SpansOf(node_info.info) ELSE << >>)
        \o saved(Len(stack)) \o registered(DOMAIN unsafes)

\* The last step was visit_expr on a transmute call with one argument.
LastTransmute ==
    /\ last.visited
    /\ last.expr.node = "ExprCall"
    /\ last.expr.transmute1

\* C11: a visit_expr step changes nothing but the cursor, and either
\* leaves it as it was or appends the span of the expression to exactly
\* one bucket of the active region; no span (one per expression) is
\* recorded at two places, be it two buckets or two regions.
C11_OneBucketPerExpression ==
    /\ [][(pc = "walk" /\ exprs' = exprs + 1) =>
             /\ unsafes' = unsafes
             /\ stack' = stack
             /\ \/ node_info' = node_info
                \/ /\ node_info.tag = "Some"
                   /\ \E b \in BucketSet :
                         node_info' = Some(node_info.id,
                                           push(node_info.info, b, exprs))]_vars
    /\ [](\A i \in 1..Len(AllSpans), j \in 1..Len(AllSpans) :
            i < j => AllSpans[i] # AllSpans[j])

C11_Witness ==
    /\ LastTransmute
    /\ last.expr.def = "foreign_local"
    /\ last.expr.from = "ptr_imm"
    /\ last.expr.to = "ptr_mut"
    /\ last.span = 1
    /\ node_info.tag = "Some"
    /\ Cardinality(Occurrences(0)) = 1
    /\ Cardinality(Occurrences(1)) = 1

\* The activation on top of the stack is about to commit the cursor's
\* region: visit_fn always does on leave, visit_block if it inserted.
CommitAttempt ==
    /\ pc = "walk"
    /\ stack # << >>
    /\ node_info.tag = "Some"
    /\ (Top.fn = "visit_fn" \/ Top.inserted)

\* C12: a leave step that commits an identity already in the Registry
\* ends the run as panicked at once, with nothing of that run printed, so
\* the run never reaches its report loop; no line of stdout belongs to a
\* run that panicked.
C12_DuplicateCommitAborts ==
    /\ [][(CommitAttempt /\ stack' = Pop
           /\ node_info.id \in DOMAIN unsafes) =>
             /\ results' = Append(results, "panicked")
             /\ pc' \in {"get_ast", "exit", "aborted"}
             /\ out' = out
             /\ \A i \in 1..Len(out) : out[i].run # input]_vars
    /\ [](\A r \in 1..Len(results) :
            results[r] = "panicked" =>
               \A i \in 1..Len(out) : out[i].run # r)

C12_Witness ==
    /\ pc = "get_ast"
    /\ input = 2
    /\ results = <<"panicked">>
    /\ DOMAIN unsafes = {1}

\* C13: while the walk is inside the node that opened a region (an unsafe
\* item, or a block for which visit_block inserted), the identity of that
\* region is not in the Registry, also after a closure nested in the node
\* has been left; leaving the node puts it there.
C13_CommittedOnLeaveOnly ==
    /\ [](pc = "walk" =>
            \A i \in 1..Len(stack) :
               stack[i].inserted => stack[i].id \notin DOMAIN unsafes)
    /\ [][(pc = "walk" /\ stack # << >> /\ stack' = Pop /\ Top.inserted) =>
             Top.id \in DOMAIN unsafes']_vars

\* C14: leaving a function-like node (unsafe item, safe item, closure)
\* makes the cursor what it was when the node was entered, and changes the
\* Registry only if the enter of that node created a region.
C14_FnLeaveRestoresCursor ==
    [][(pc = "walk" /\ stack # << >> /\ stack' = Pop
        /\ Top.fn = "visit_fn") =>
          /\ node_info' = Top.entry
          /\ (unsafes' # unsafes => Top.inserted)]_vars

\* The walk is in the body of the node of activation i, outside any
\* region-opening node and any safe named item nested in that body.
InBodyOf(i) ==
    /\ i \in 1..Len(stack)
    /\ \A j \in (i + 1)..Len(stack) :
          ~stack[j].inserted /\ stack[j].kind # "safe_item"

\* The last step entered a node of this kind.
Entered(kind) ==
    /\ pc = "walk"
    /\ Len(stack') = Len(stack) + 1
    /\ stack'[Len(stack')].kind = kind

\* C15: entering an unsafe named item installs a new region (is_fn, not
\* compiler-generated) under the identity of the item, whatever the cursor
\* held; a hazardous expression visited in the body of the item is
\* appended to that region; leaving the item makes the cursor what it was
\* on entry.
C15_UnsafeItemOpensRegion ==
    /\ [][Entered("unsafe_item") =>
             /\ node_info'.tag = "Some"
             /\ node_info'.id = stack'[Len(stack')].id
             /\ node_info'.info =
                   NodeInfo_new(node_info'.info.span, TRUE, FALSE)]_vars
    /\ [](\A i \in 1..Len(stack) :
            (Hazard /\ stack[i].kind = "unsafe_item" /\ InBodyOf(i)) =>
               AppendedTo(stack[i].id))
    /\ [][(pc = "walk" /\ stack # << >> /\ stack' = Pop
           /\ Top.kind = "unsafe_item") => node_info' = Top.entry]_vars

\* C16: entering a compiler-generated unsafe block while a region R is
\* active installs a new region (a block, compiler-generated) under the
\* identity of the block; a hazardous expression visited in the block is
\* appended to that region; leaving the block puts that region into the
\* Registry and makes R the cursor again as it was on entry.
C16_CompilerBlockShadows ==
    /\ [][(Entered("UnsafeCompilerGenerated") /\ node_info.tag = "Some") =>
             /\ node_info'.tag = "Some"
             /\ node_info'.id = stack'[Len(stack')].id
             /\ node_info'.info =
                   NodeInfo_new(node_info'.info.span, FALSE, TRUE)]_vars
    /\ [](\A i \in 1..Len(stack) :
            (/\ Hazard
             /\ stack[i].kind = "UnsafeCompilerGenerated"
             /\ stack[i].entry.tag = "Some"
             /\ InBodyOf(i)) => AppendedTo(stack[i].id))
    /\ [][(pc = "walk" /\ stack # << >> /\ stack' = Pop
           /\ Top.kind = "UnsafeCompilerGenerated"
           /\ Top.entry.tag = "Some") =>
             /\ node_info' = Top.entry
             /\ Top.id \in DOMAIN unsafes']_vars

\* The span of the last expression is recorded once, in bucket b of the
\* active region, and nowhere else.
RecordedOnlyUnder(b) ==
    /\ node_info.tag = "Some"
    /\ \E k \in 1..exprs : Occurrences(last.span) = {<<1, b, k>>}

\* The last step was visit_expr on an explicit cast.
LastCast == last.visited /\ last.expr.node = "ExprCast"

\* The mutability upgrade a pair of types amounts to, if any.
C17_Upgrade(from_ty, to_ty) ==
    CASE from_ty = "rptr_imm" /\ to_ty = "rptr_mut" -> "transmute_imm_to_mut"
      [] from_ty = "ptr_imm" /\ to_ty = "ptr_mut" ->
            "cast_raw_ptr_const_to_mut"
      [] OTHER -> "none"

\* C17: in an active region an explicit cast or a one-argument transmute
\* call from an immutable to a mutable reference is recorded only under
\* transmute_imm_to_mut, from an immutable to a mutable raw pointer only
\* under cast_raw_ptr_const_to_mut, and a one-argument transmute call of
\* any other pair of types only under transmute.
C17_SpecificCategoryWins ==
    (node_info.tag = "Some" /\ (LastCast \/ LastTransmute)) =>
       LET up == C17_Upgrade(last.expr.from, last.expr.to)
       IN  /\ up # "none" => RecordedOnlyUnder(up)
           /\ (up = "none" /\ LastTransmute) =>
                 RecordedOnlyUnder("transmute")

C17_Witness ==
    /\ LastTransmute
    /\ last.expr.from = "rptr_imm"
    /\ last.expr.to = "rptr_mut"
    /\ node_info.tag = "Some"
    /\ node_info.info.transmute_imm_to_mut = <<last.span>>
    /\ node_info.info.transmute = <<0>>
    /\ node_info.info.is_fn = FALSE

\* The span of the last expression is recorded in bucket b somewhere.
RecordedUnder(b) == \E t \in Occurrences(last.span) : t[2] = b

\* The last step was visit_expr on a direct call that the transmute rule
\* did not take.
LastCall ==
    /\ last.visited
    /\ last.expr.node = "ExprCall"
    /\ ~last.expr.transmute1

C18_UnsafeFnTys == {"bare_fn_unsafe", "closure_unsafe"}

\* C18: in an active region a direct call not taken by the transmute rule
\* is recorded under ffi iff its callee resolves to a local foreign
\* function; a callee of another crate is never recorded under ffi, and is
\* recorded under unsafe_call iff its type is an unsafe function type.
C18_ForeignCallIsLocal ==
    (node_info.tag = "Some" /\ LastCall) =>
       /\ RecordedUnder("ffi") <=> last.expr.def = "foreign_local"
       /\ last.expr.def = "fn_extern" =>
             /\ ~RecordedUnder("ffi")
             /\ RecordedUnder("unsafe_call")
                   <=> last.expr.ty \in C18_UnsafeFnTys

C18_Witness ==
    /\ LastCall
    /\ last.expr.def = "fn_extern"
    /\ last.expr.ty = "bare_fn_unsafe"
    /\ node_info.tag = "Some"
    /\ node_info.info.ffi = <<0>>
    /\ node_info.info.unsafe_call = <<1>>

\* The record of the region with this identity, wherever it is held.
Record(id) ==
    IF node_info.tag = "Some" /\ node_info.id = id THEN node_info.info
    ELSE IF id \in DOMAIN unsafes THEN unsafes[id]
    ELSE IF \E i \in 1..Len(stack) :
               /\ stack[i].old_node_info.tag = "Some"
               /\ stack[i].old_node_info.id = id
         THEN stack[CHOOSE i \in 1..Len(stack) :
                       /\ stack[i].old_node_info.tag = "Some"
                       /\ stack[i].old_node_info.id = id].old_node_info.info
         ELSE None

\* C19: during the walk a record that is in the Registry stays there
\* unchanged, and the record of a region changes only by a visit_expr step
\* taken while the cursor holds that region: saved regions and committed
\* regions are never appended to.
C19_OnlyActiveRegionMutated ==
    /\ [][pc = "walk" =>
             \A id \in DOMAIN unsafes :
                id \in DOMAIN unsafes' /\ unsafes'[id] = unsafes[id]]_vars
    /\ [][(pc = "walk" /\ pc' = "walk") =>
             \A id \in opened :
                Record(id)' # Record(id) =>
                   /\ exprs' = exprs + 1
                   /\ node_info.tag = "Some" /\ node_info.id = id
                   /\ node_info'.tag = "Some" /\ node_info'.id = id]_vars

C19_Witness ==
    /\ Hazard
    /\ AppendedTo(node_info.id)
    /\ DOMAIN unsafes # {}
    /\ \E i \in 1..Len(stack) : stack[i].old_node_info.tag = "Some"

\* C20: a visit_expr step taken while the cursor is Empty leaves cursor,
\* Registry and saved regions as they are, whatever the expression; its
\* span is recorded nowhere.
C20_EmptyCursorNoOp ==
    /\ [][(pc = "walk" /\ exprs' = exprs + 1 /\ node_info = None) =>
             /\ node_info' = None
             /\ unsafes' = unsafes
             /\ stack' = stack]_vars
    /\ []((last.visited /\ node_info = None) =>
             Occurrences(last.span) = {})

C20_Witness ==
    /\ last.visited
    /\ last.expr.node = "ExprInlineAsm"
    /\ node_info = None
    /\ stack # << >>
    /\ Top.kind = "safe_item"
    /\ Top.entry.tag = "Some"

\* What the report of the current run is, as a function of the Registry
\* and the flags alone: the regions taken by ascending identity.
C21_Render ==
    LET RECURSIVE upto(_)
        upto(id) ==
            IF id = 0 THEN << >>
            ELSE upto(id - 1)
                 \o (IF /\ id \in DOMAIN unsafes
                        /\ ~skipped(unsafes[id])
                        /\ reported(unsafes[id])
                     THEN <<summary(id, unsafes[id])>>
                          \o print_lines(id, sort_by_lo(collect(unsafes[id])))
                     ELSE << >>)
    IN  upto(nodes)

\* C21: the regions of a report appear in ascending order of identity,
\* whatever the order in which the walk committed them, and the finished
\* report is a function of the Registry's contents and the flags, so the
\* same tree and flags give the same output.
C21_AscendingIdentityOrder ==
    /\ \A i \in 1..Len(out), j \in 1..Len(out) :
          i < j => out[i].region <= out[j].region
    /\ (pc = "report" /\ todo = << >>) => out = C21_Render

C21_Witness ==
    /\ pc = "report"
    /\ todo = << >>
    /\ committed = <<2, 1>>
    /\ Summaries(1) # << >>
    /\ Summaries(2) # << >>

\* C22: with only the ffi flag every source line printed for a region is
\* the line of one of its ffi spans; with only the nonffi flag every
\* source line printed is the line of one of its non-ffi spans, so none is
\* there for an ffi span alone.
C22_LinesFromSelectedBuckets ==
    \A id \in DOMAIN unsafes :
       Processed(id) =>
          LET L == Lines(id)
              from(buckets) ==
                 \A i \in 1..Len(L) :
                    \E b \in buckets :
                       \E k \in 1..Len(unsafes[id][b]) :
                          span_to_lines(unsafes[id][b][k])
                             = [file |-> L[i].file, line |-> L[i].line]
          IN  /\ (session.ffi /\ ~session.nonffi) => from({"ffi"})
              /\ (session.nonffi /\ ~session.ffi) =>
                    from(BucketSet \ {"ffi"})

C22_Witness ==
    \E id \in DOMAIN unsafes :
       /\ Processed(id)
       /\ session.ffi
       /\ ~session.nonffi
       /\ unsafes[id].ffi = <<0>>
       /\ unsafes[id].raw_deref = <<2>>
       /\ Len(Lines(id)) = 1
       /\ Lines(id)[1].line = 1

UserBlockInCompilerRegion(i) ==
    /\ stack[i].kind = "UnsafeUser"
    /\ stack[i].entry.tag = "Some"
    /\ stack[i].entry.info.compiler

\* C24: an author-written unsafe block entered while the active region is
\* compiler-generated opens no region, a hazardous expression visited in
\* it is appended to the compiler-generated region, and no line of stdout
\* belongs to a compiler-generated region.
C24_UserBlockInCompilerRegion ==
    /\ \A i \in 1..Len(stack) :
          UserBlockInCompilerRegion(i) =>
             /\ ~stack[i].inserted
             /\ stack[i].id \notin opened
             /\ (Hazard /\ InBodyOf(i)) => AppendedTo(stack[i].entry.id)
    /\ \A k \in 1..Len(out) : ~unsafes[out[k].region].compiler

\* C25: under the summary of every reported region the line of each of
\* its selected spans is printed exactly once, also when an earlier
\* region of the same run has printed that line.
C25_SeenResetPerRegion ==
    \A id \in DOMAIN unsafes :
       (Processed(id) /\ Summaries(id) # << >>) =>
          \A k \in 1..Len(collect(unsafes[id])) :
             Cardinality({i \in 1..Len(Lines(id)) :
                [file |-> Lines(id)[i].file, line |-> Lines(id)[i].line]
                   = span_to_lines(collect(unsafes[id])[k])}) = 1

C25_Witness ==
    \E a \in DOMAIN unsafes, b \in DOMAIN unsafes :
       /\ a < b
       /\ Processed(a)
       /\ Processed(b)
       /\ driver = "bin"
       /\ Len(Lines(a)) = 1
       /\ Len(Lines(b)) = 1
       /\ Lines(a)[1].file = Lines(b)[1].file
       /\ Lines(a)[1].line = Lines(b)[1].line

\* C26: in an active region an explicit cast whose types match neither
\* mutability upgrade is recorded nowhere, and no explicit cast is recorded
\* under a category other than the two mutability upgrades.
C26_CastHasNoFallback ==
    (node_info.tag = "Some" /\ LastCast) =>
       /\ C17_Upgrade(last.expr.from, last.expr.to) = "none" =>
             /\ Occurrences(last.span) = {}
             /\ last.span \notin {AllSpans[i] : i \in 1..Len(AllSpans)}
       /\ \A b \in BucketSet \ {"transmute_imm_to_mut",
                                 "cast_raw_ptr_const_to_mut"} :
             ~RecordedUnder(b)

C26_Witness ==
    /\ LastCast
    /\ last.expr.from = "ptr_mut"
    /\ last.expr.to = "other"
    /\ last.span = 1
    /\ node_info.tag = "Some"
    /\ node_info.info.transmute = <<0>>
    /\ AllSpans = <<0>>

====
